---- MODULE Spec2Model ----
(***************************************************************************)
(* Model of the S3/MinIO multipart upload client of src/src/lib.rs: the    *)
(* Uploader's four operations (initiate, upload_part, complete, abort),    *)
(* the cancellation-aware dispatch they share, and the transport and the   *)
(* caller as the environment.                                              *)
(*                                                                         *)
(* Strings are sequences of tokens.  Every character the code inspects (a  *)
(* slash, a quote, a colon, a comma, a character of an upload id or of a   *)
(* key) is a token of its own; a literal of a format string or an XML      *)
(* marker that the code only copies or searches as a whole is one token.   *)
(* Byte offsets into a string are sums of the token lengths.               *)
(***************************************************************************)
EXTENDS Integers, Sequences, FiniteSets, TLC

VARIABLES
    cred,       \* the Uploader's fields: access_key, secret_key, session_token, region, endpoint
    calls,      \* one record per call slot: the position of the async fn and its locals
    heap,       \* the caller's buffer behind each call slot's Uint8Array
    session,    \* the caller-owned UploadSession state per upload id
    hasher,     \* the IncrementalHasher's fields: sha256, md5_ctx
    fed,        \* the chunks passed to update so far, in order
    digest_out  \* what the last finalize returned, if no update came after it

hvars == <<hasher, fed, digest_out>>

vars == <<cred, calls, heap, session, hasher, fed, digest_out>>

----------------------------------------------------------------------------
(* Bounds of the model. *)

MaxPartNumber == 2
MaxParts == 2
MaxUpdates == 2
MaxChunkLen == 2

----------------------------------------------------------------------------
(* String helpers of the standard library, as the code uses them. *)

Quote == "\""

StartsWith(s, p) == Len(p) <= Len(s) /\ SubSeq(s, 1, Len(p)) = p

\* str::replace(pat, to): every non-overlapping match, left to right.
RECURSIVE Replace(_, _, _)
Replace(s, pat, to) ==
    IF s = <<>> THEN <<>>
    ELSE IF StartsWith(s, pat)
         THEN to \o Replace(SubSeq(s, Len(pat) + 1, Len(s)), pat, to)
         ELSE <<Head(s)>> \o Replace(Tail(s), pat, to)

\* str::trim_start_matches(ch)
RECURSIVE TrimStartMatches(_, _)
TrimStartMatches(s, ch) ==
    IF s # <<>> /\ Head(s) = ch THEN TrimStartMatches(Tail(s), ch) ELSE s

\* str::trim_end_matches(ch)
RECURSIVE TrimEndMatches(_, _)
TrimEndMatches(s, ch) ==
    IF s # <<>> /\ s[Len(s)] = ch
    THEN TrimEndMatches(SubSeq(s, 1, Len(s) - 1), ch)
    ELSE s

\* Index of the first token equal to tok, 0 when there is none.
RECURSIVE IndexOf(_, _, _)
IndexOf(s, tok, from) ==
    IF from > Len(s) THEN 0
    ELSE IF s[from] = tok THEN from
    ELSE IndexOf(s, tok, from + 1)

\* str::split(ch): the pieces between the separators; one piece when there is none.
RECURSIVE Split(_, _)
Split(s, ch) ==
    LET i == IndexOf(s, ch, 1)
    IN  IF i = 0 THEN <<s>>
        ELSE <<SubSeq(s, 1, i - 1)>> \o Split(SubSeq(s, i + 1, Len(s)), ch)

\* Byte length of the first n tokens of s.
RECURSIVE ByteLen(_, _)
ByteLen(s, n) == IF n = 0 THEN 0 ELSE ByteLen(s, n - 1) + Len(s[n])

NotFound == 0 - 1

\* str::find(marker): the byte offset of the first occurrence, NotFound for None.
Find(s, marker) ==
    LET i == IndexOf(s, marker, 1)
    IN  IF i = 0 THEN NotFound ELSE ByteLen(s, i - 1)

\* &s[from..to] for from <= to: the tokens lying within the byte range.
RECURSIVE ByteSlice(_, _, _, _)
ByteSlice(s, from, to, i) ==
    IF i > Len(s) THEN <<>>
    ELSE IF ByteLen(s, i - 1) >= from /\ ByteLen(s, i) <= to
         THEN <<s[i]>> \o ByteSlice(s, from, to, i + 1)
         ELSE ByteSlice(s, from, to, i + 1)

\* Display of an unsigned integer ({} of u32, u16).
DigitChars == <<"0", "1", "2", "3", "4", "5", "6", "7", "8", "9">>

RECURSIVE ToDec(_)
ToDec(n) ==
    IF n < 10 THEN <<DigitChars[n + 1]>>
    ELSE ToDec(n \div 10) \o <<DigitChars[(n % 10) + 1]>>

----------------------------------------------------------------------------
(* js_sys::encode_uri_component: encodeURIComponent leaves the letters, the *)
(* digits and - _ . ! ~ * ' ( ) alone and writes every other character as  *)
(* %XX.                                                                    *)

Letters ==
    {"a", "b", "c", "d", "e", "f", "g", "h", "i", "j", "k", "l", "m",
     "n", "o", "p", "q", "r", "s", "t", "u", "v", "w", "x", "y", "z",
     "A", "B", "C", "D", "E", "F", "G", "H", "I", "J", "K", "L", "M",
     "N", "O", "P", "Q", "R", "S", "T", "U", "V", "W", "X", "Y", "Z"}

Digits == {"0", "1", "2", "3", "4", "5", "6", "7", "8", "9"}

UriUnescaped == Letters \cup Digits \cup {"-", "_", ".", "!", "~", "*", "'", "(", ")"}

PercentCode(ch) ==
    CASE ch = "=" -> <<"%", "3", "D">>
      [] ch = "+" -> <<"%", "2", "B">>
      [] ch = "/" -> <<"%", "2", "F">>
      [] ch = "!" -> <<"%", "2", "1">>
      [] ch = "*" -> <<"%", "2", "A">>
      [] ch = "'" -> <<"%", "2", "7">>
      [] ch = "(" -> <<"%", "2", "8">>
      [] ch = ")" -> <<"%", "2", "9">>
      [] ch = ":" -> <<"%", "3", "A">>
      [] ch = "," -> <<"%", "2", "C">>
      [] ch = " " -> <<"%", "2", "0">>
      [] ch = "%" -> <<"%", "2", "5">>

RECURSIVE encode_uri_component(_)
encode_uri_component(s) ==
    IF s = <<>> THEN <<>>
    ELSE (IF Head(s) \in UriUnescaped THEN <<Head(s)>> ELSE PercentCode(Head(s)))
         \o encode_uri_component(Tail(s))

----------------------------------------------------------------------------
(* JavaScript values that cross the boundary, and the results of a call. *)

JsUndefined == [js |-> "undefined", str |-> <<>>, name |-> ""]
JsString(s) == [js |-> "string", str |-> s, name |-> ""]
DomException(n) == [js |-> "DOMException", str |-> <<>>, name |-> n]
JsTypeError == [js |-> "TypeError", str |-> <<>>, name |-> "TypeError"]

Pending == [kind |-> "Pending", val |-> JsUndefined]
Ok(v) == [kind |-> "Ok", val |-> v]
Err(v) == [kind |-> "Err", val |-> v]
Panicked == [kind |-> "Panic", val |-> JsUndefined]

\* A request body: none, the bytes of a Uint8Array, or a string.
NoBody == [kind |-> "none", bytes |-> <<>>, text |-> <<>>]
BytesBody(b) == [kind |-> "bytes", bytes |-> b, text |-> <<>>]
TextBody(t) == [kind |-> "text", bytes |-> <<>>, text |-> t]

----------------------------------------------------------------------------
(* Digests.  SHA-256 and HMAC-SHA256 are modelled as collision-free: a      *)
(* digest is the record of its input.                                      *)

Sha256Hex(body) ==
    [sha256 |-> IF body.bytes = <<>> /\ body.text = <<>> THEN NoBody ELSE body]

\* The literal e3b0c442...b855: the SHA-256 of the empty input.
EmptySha256 == Sha256Hex(NoBody)

Sha256HexOf(value) == [sha256 |-> value]

hmac_sha256(key, data) == [hmac_key |-> key, hmac_data |-> data]

get_signature(self, datestamp, string_to_sign) ==
    LET k_date == hmac_sha256(<<"AWS4">> \o self.secret_key, datestamp)
        k_region == hmac_sha256(k_date, self.region)
        k_service == hmac_sha256(k_region, <<"s3">>)
        k_signing == hmac_sha256(k_service, <<"aws4_request">>)
    IN  [hex |-> hmac_sha256(k_signing, string_to_sign)]

SignedHeaders == <<"host;x-amz-content-sha256;x-amz-date;x-amz-security-token">>

\* A signing that leaves the session token out of the canonical headers.
calculate_v4_authWithoutToken(self, method, uri, query, amz_date, datestamp, content_sha256, host, signed_headers) ==
    LET canonical_headers ==
            << <<"host:", host>>, <<"x-amz-content-sha256:", content_sha256>>,
               <<"x-amz-date:", amz_date>> >>
        canonical_request ==
            <<method, uri, query, canonical_headers, signed_headers, content_sha256>>
        credential_scope == datestamp \o <<"/">> \o self.region \o <<"/s3/aws4_request">>
        string_to_sign ==
            <<"AWS4-HMAC-SHA256", amz_date, credential_scope, Sha256HexOf(canonical_request)>>
        signature == get_signature(self, datestamp, string_to_sign)
    IN  [algorithm |-> "AWS4-HMAC-SHA256",
         credential |-> self.access_key \o <<"/">> \o credential_scope,
         signed_headers |-> signed_headers,
         signature |-> signature]

calculate_v4_auth(self, method, uri, query, amz_date, datestamp, content_sha256, host, signed_headers) ==
    LET canonical_headers ==
            << <<"host:", host>>, <<"x-amz-content-sha256:", content_sha256>>,
               <<"x-amz-date:", amz_date>>, <<"x-amz-security-token:", self.session_token>> >>
        canonical_request ==
            <<method, uri, query, canonical_headers, signed_headers, content_sha256>>
        credential_scope == datestamp \o <<"/">> \o self.region \o <<"/s3/aws4_request">>
        string_to_sign ==
            <<"AWS4-HMAC-SHA256", amz_date, credential_scope, Sha256HexOf(canonical_request)>>
        signature == get_signature(self, datestamp, string_to_sign)
    IN  [algorithm |-> "AWS4-HMAC-SHA256",
         credential |-> self.access_key \o <<"/">> \o credential_scope,
         signed_headers |-> signed_headers,
         signature |-> signature]

\* &amz_date[..8]
Datestamp(amz_date) == ByteSlice(amz_date, 0, 8, 1)

Http == <<"h", "t", "t", "p", ":", "/", "/">>
Https == <<"h", "t", "t", "p", "s", ":", "/", "/">>

----------------------------------------------------------------------------
(* The request each operation builds, signs and hands to fetch. *)

NoAuth == [algorithm |-> "", credential |-> <<>>, signed_headers |-> <<>>,
           signature |-> [hex |-> <<>>]]

NoRequest ==
    [method |-> "", url |-> <<>>, body |-> NoBody, signal |-> FALSE,
     content_type |-> <<>>, x_amz_date |-> <<>>, x_amz_security_token |-> <<>>,
     x_amz_content_sha256 |-> EmptySha256, authorization |-> NoAuth,
     canonical_uri |-> <<>>, canonical_query |-> <<>>, host |-> <<>>]

\* A copy into a buffer that every call shares.
to_vecShared(chunk) == IF heap[1] = <<>> THEN chunk ELSE heap[1]

\* chunk.to_vec(): the owned copy of the caller's bytes.
to_vec(chunk) == chunk

\* hex::encode(Sha256::digest(&chunk_data))
PayloadHashEmpty(chunk_data) == EmptySha256

PayloadHash(chunk_data) == Sha256Hex(BytesBody(chunk_data))

UploadPartQuery(part_number, upload_id) ==
    <<"partNumber=">> \o ToDec(part_number) \o <<"&uploadId=">> \o encode_uri_component(upload_id)

UploadPartRequest(self, bucket, object_key, upload_id, part_number, chunk_data, signal, now) ==
    LET method == "PUT"
        query == UploadPartQuery(part_number, upload_id)
        host == Replace(Replace(self.endpoint, Http, <<>>), Https, <<>>)
        amz_date == now
        datestamp == Datestamp(amz_date)
        content_sha256 == PayloadHash(chunk_data)
        clean_object_key == TrimStartMatches(object_key, "/")
        canonical_uri == <<"/">> \o bucket \o <<"/">> \o clean_object_key
        canonical_headers ==
            << <<"host:", host>>, <<"x-amz-content-sha256:", content_sha256>>,
               <<"x-amz-date:", amz_date>>, <<"x-amz-security-token:", self.session_token>> >>
        signed_headers == SignedHeaders
        canonical_request ==
            <<method, canonical_uri, query, canonical_headers, signed_headers, content_sha256>>
        credential_scope == datestamp \o <<"/">> \o self.region \o <<"/s3/aws4_request">>
        string_to_sign ==
            <<"AWS4-HMAC-SHA256", amz_date, credential_scope, Sha256HexOf(canonical_request)>>
        signature == get_signature(self, datestamp, string_to_sign)
        auth_header ==
            [algorithm |-> "AWS4-HMAC-SHA256",
             credential |-> self.access_key \o <<"/">> \o credential_scope,
             signed_headers |-> signed_headers,
             signature |-> signature]
        url == TrimEndMatches(self.endpoint, "/") \o <<"/">> \o bucket \o <<"/">>
               \o clean_object_key \o <<"?">> \o query
    IN  [method |-> method, url |-> url, body |-> BytesBody(chunk_data), signal |-> signal,
         content_type |-> <<>>, x_amz_date |-> amz_date,
         x_amz_security_token |-> self.session_token,
         x_amz_content_sha256 |-> content_sha256, authorization |-> auth_header,
         canonical_uri |-> canonical_uri, canonical_query |-> query, host |-> host]

InitiateRequest(self, bucket, object_key, now) ==
    LET method == "POST"
        canonical_querystring == <<"uploads=">>
        query_for_url == <<"uploads">>
        host == Replace(Replace(self.endpoint, Http, <<>>), Https, <<>>)
        amz_date == now
        datestamp == Datestamp(amz_date)
        content_sha256 == EmptySha256
        canonical_uri == <<"/">> \o bucket \o <<"/">> \o object_key
        canonical_headers ==
            << <<"host:", host>>, <<"x-amz-content-sha256:", content_sha256>>,
               <<"x-amz-date:", amz_date>>, <<"x-amz-security-token:", self.session_token>> >>
        signed_headers == SignedHeaders
        canonical_request ==
            <<method, canonical_uri, canonical_querystring, canonical_headers, signed_headers,
              content_sha256>>
        credential_scope == datestamp \o <<"/">> \o self.region \o <<"/s3/aws4_request">>
        string_to_sign ==
            <<"AWS4-HMAC-SHA256", amz_date, credential_scope, Sha256HexOf(canonical_request)>>
        signature == get_signature(self, datestamp, string_to_sign)
        auth_header ==
            [algorithm |-> "AWS4-HMAC-SHA256",
             credential |-> self.access_key \o <<"/">> \o credential_scope,
             signed_headers |-> signed_headers,
             signature |-> signature]
        url == TrimEndMatches(self.endpoint, "/") \o <<"/">> \o bucket \o <<"/">>
               \o object_key \o <<"?">> \o query_for_url
    IN  [method |-> method, url |-> url, body |-> NoBody, signal |-> FALSE,
         content_type |-> <<>>, x_amz_date |-> amz_date,
         x_amz_security_token |-> self.session_token,
         x_amz_content_sha256 |-> content_sha256, authorization |-> auth_header,
         canonical_uri |-> canonical_uri, canonical_query |-> canonical_querystring,
         host |-> host]

\* One item of parts_data: "<Part>..</Part>" when it has exactly two ':'-separated fields.
PartXml(item) ==
    LET p == Split(item, ":")
    IN  IF Len(p) = 2
        THEN <<"<Part><PartNumber>">> \o p[1] \o <<"</PartNumber><ETag>", Quote>> \o p[2]
             \o <<Quote, "</ETag></Part>">>
        ELSE <<>>

RECURSIVE PartsXml(_)
PartsXml(items) ==
    IF items = <<>> THEN <<>> ELSE PartXml(Head(items)) \o PartsXml(Tail(items))

XmlBody(parts_data) ==
    <<"<CompleteMultipartUpload>">> \o PartsXml(Split(parts_data, ",")) \o
    <<"</CompleteMultipartUpload>">>

CompleteRequest(self, bucket, object_key, upload_id, parts_data, signal, now) ==
    LET method == "POST"
        host == Replace(Replace(self.endpoint, Https, <<>>), Http, <<>>)
        query == <<"uploadId=">> \o upload_id
        amz_date == now
        datestamp == Datestamp(amz_date)
        xml_body == XmlBody(parts_data)
        content_sha256 == Sha256Hex(TextBody(xml_body))
        canonical_uri == <<"/">> \o bucket \o <<"/">> \o object_key
        auth_header ==
            calculate_v4_auth(self, method, canonical_uri, query, amz_date, datestamp,
                              content_sha256, host, SignedHeaders)
        url == self.endpoint \o <<"/">> \o bucket \o <<"/">> \o object_key \o <<"?">> \o query
    IN  [method |-> method, url |-> url, body |-> TextBody(xml_body), signal |-> signal,
         content_type |-> <<"application/xml">>, x_amz_date |-> amz_date,
         x_amz_security_token |-> self.session_token,
         x_amz_content_sha256 |-> content_sha256, authorization |-> auth_header,
         canonical_uri |-> canonical_uri, canonical_query |-> query, host |-> host]

\* The URL complete returns on success.
FinalUrl(self, bucket, object_key) ==
    self.endpoint \o <<"/">> \o bucket \o <<"/">> \o object_key

AbortRequest(self, bucket, object_key, upload_id, now) ==
    LET method == "DELETE"
        host == Replace(Replace(self.endpoint, Https, <<>>), Http, <<>>)
        amz_date == now
        datestamp == Datestamp(amz_date)
        encoded_upload_id == encode_uri_component(upload_id)
        query == <<"uploadId=">> \o encoded_upload_id
        content_sha256 == EmptySha256
        canonical_uri == <<"/">> \o bucket \o <<"/">> \o object_key
        auth_header ==
            calculate_v4_auth(self, method, canonical_uri, query, amz_date, datestamp,
                              content_sha256, host, SignedHeaders)
        url == TrimEndMatches(self.endpoint, "/") \o <<"/">> \o bucket \o <<"/">>
               \o object_key \o <<"?">> \o query
    IN  [method |-> method, url |-> url, body |-> NoBody, signal |-> FALSE,
         content_type |-> <<>>, x_amz_date |-> amz_date,
         x_amz_security_token |-> self.session_token,
         x_amz_content_sha256 |-> content_sha256, authorization |-> auth_header,
         canonical_uri |-> canonical_uri, canonical_query |-> query, host |-> host]

----------------------------------------------------------------------------
(* What each operation makes of the response. *)

NoHeader == [present |-> FALSE, value |-> <<>>]
Header(v) == [present |-> TRUE, value |-> v]

NoResponse == [status |-> 0, etag |-> NoHeader, body |-> <<>>]

\* Response.ok
ResponseOkOnly200(status) == status = 200

ResponseOk(status) == status >= 200 /\ status <= 299

\* Byte length of "<UploadId>".
OpenTagLen == 10

UserCanceled == JsString(<<"USER_CANCELED">>)

\* handle_fetch_error: an AbortError DOMException becomes "USER_CANCELED".
handle_fetch_error(e) ==
    IF e.js = "DOMException" /\ e.name = "AbortError" THEN Err(UserCanceled) ELSE Err(e)

\* resp.headers().get("ETag")?.ok_or("No ETag")?, then etag.replace("\"", "")
ETagOutcomeOrDefault(etag) == Ok(JsString(Replace(etag.value, <<Quote>>, <<>>)))

ETagOutcome(etag) ==
    IF ~etag.present
    THEN Err(JsString(<<"No ETag">>))
    ELSE Ok(JsString(Replace(etag.value, <<Quote>>, <<>>)))

UploadPartHttpError(status, error_text) ==
    Err(JsString(<<"MinIO upload failed with status: ">> \o ToDec(status)
                 \o <<", detail: ">> \o error_text))

InitiateHttpError(status, error_text) ==
    Err(JsString(<<"MinIO Error (">> \o ToDec(status) \o <<"): ">> \o error_text))

CompleteHttpError(status, error_text) ==
    Err(JsString(<<"Complete multipart upload failed (">> \o ToDec(status) \o <<"): ">>
                 \o error_text))

AbortHttpError == Err(JsString(<<"Abort multipart upload failed">>))

\* The extraction of the upload id; slicing with start > end panics.
ExtractUploadId(text) ==
    LET start_idx == Find(text, "<UploadId>")
        end_idx == Find(text, "</UploadId>")
    IN  IF start_idx # NotFound /\ end_idx # NotFound
        THEN IF start_idx + OpenTagLen > end_idx
             THEN Panicked
             ELSE Ok(JsString(ByteSlice(text, start_idx + OpenTagLen, end_idx, 1)))
        ELSE Err(JsString(<<"UploadId not found: ">> \o text))

----------------------------------------------------------------------------
(* The IncrementalHasher.  A digest context is modelled by the bytes it has  *)
(* absorbed, a digest by the record of its input.                          *)

\* IncrementalHasher::new
HasherNew == [sha256 |-> <<>>, md5_ctx |-> <<>>]

\* chunk.copy_to(&mut buffer) into a buffer of chunk.length() zeros
copy_to(chunk) == chunk

\* Digest::update: the context absorbs data after what it holds.
DigestUpdateReplacing(ctx, data) == data

DigestUpdate(ctx, data) == ctx \o data

\* IncrementalHasher::update
HasherUpdate(h, chunk) ==
    LET buffer == copy_to(chunk)
    IN  [sha256 |-> DigestUpdate(h.sha256, buffer),
         md5_ctx |-> DigestUpdate(h.md5_ctx, buffer)]

Md5Hex(bytes) == [md5 |-> bytes]

\* hex::encode(self.sha256.clone().finalize())
finalize_sha256(h) == Sha256Hex(BytesBody(h.sha256))

\* format!("{:x}", self.md5_ctx.clone().finalize())
finalize_md5(h) == Md5Hex(h.md5_ctx)

\* The hasher after a finalize: only the clone is consumed.
HasherAfterFinalizeReset(h) == HasherNew

HasherAfterFinalize(h) == h

NoDigest == [alg |-> "none", hex |-> <<>>, earlier |-> FALSE]

----------------------------------------------------------------------------
(* The inputs of the model. *)

Slots == {1}

Endpoints == {Http \o <<"s", "3">>, Https \o <<"s", "3", "/">>}
Buckets == {<<"b">>}
ObjectKeys == {<<"k">>, <<"/", "k">>}
UploadIds == {<<"i", "d", "=", "=">>, <<"a", "!">>}
PartNumbers == 1..MaxPartNumber
Chunks == {<<1, 2, 3>>, <<7>>}
PartETags == {<<"e", "1">>, <<"a", ":", "b">>}
AmzDates == {<<"20260206", "T123045Z">>}

Parts == [part_number : PartNumbers, etag : PartETags]

\* The lists of parts a caller supplies: each part number at most once, in any order.
PartLists ==
    UNION {{l \in [1..n -> Parts] :
                \A i, j \in 1..n : i # j => l[i].part_number # l[j].part_number}
           : n \in 0..MaxParts}

\* The caller's encoding of its list: "partNumber:etag,partNumber:etag,...".
RECURSIVE JoinParts(_)
JoinParts(l) ==
    IF l = <<>> THEN <<>>
    ELSE ToDec(Head(l).part_number) \o <<":">> \o Head(l).etag
         \o (IF Len(l) > 1 THEN <<",">> ELSE <<>>) \o JoinParts(Tail(l))

Statuses == {200, 204, 403}
ErrorBody == <<"<Error>", "D", "e", "n", "i", "e", "d", "</Error>">>
ETagHeaders ==
    {NoHeader, Header(<<Quote, "e", "1", Quote>>), Header(<<"W", "/", Quote, "e", "1", Quote>>)}
InitiateBodies ==
    {<<"<InitiateMultipartUploadResult>", "<UploadId>", "A", "B", "C", "1", "2", "3",
       "</UploadId>", "</InitiateMultipartUploadResult>">>,
     <<"</UploadId>", "<UploadId>", "x", "</UploadId>">>,
     <<"<UploadId>", "x">>,
     ErrorBody}

\* The responses the store gives to an operation.
ResponsesFor(op) ==
    CASE op = "upload_part" ->
            [status : Statuses, etag : ETagHeaders, body : {ErrorBody}]
      [] op = "initiate" ->
            [status : Statuses, etag : {NoHeader}, body : InitiateBodies]
      [] OTHER ->
            [status : Statuses, etag : {NoHeader}, body : {ErrorBody}]

----------------------------------------------------------------------------
(* The calls. *)

IdleCall ==
    [pc |-> "idle", op |-> "", bucket |-> <<>>, object_key |-> <<>>, upload_id |-> <<>>,
     part_number |-> 0, parts |-> <<>>, parts_data |-> <<>>, aborted |-> FALSE,
     late |-> FALSE, chunk_at_call |-> <<>>, req |-> NoRequest, sent |-> <<>>,
     responded |-> FALSE, resp |-> NoResponse, result |-> Pending]

Credentials ==
    [access_key : {<<"AK">>}, secret_key : {<<"SK">>}, session_token : {<<"TOKEN">>},
     region : {<<"us-east-1">>}, endpoint : Endpoints]

InitUploader ==
    /\ cred \in Credentials
    /\ calls = [c \in Slots |-> IdleCall]
    /\ heap = [c \in Slots |-> <<>>]
    /\ session = [id \in UploadIds |-> "Open"]

InitHasher ==
    /\ hasher = HasherNew
    /\ fed = <<>>
    /\ digest_out = NoDigest

Init == InitUploader /\ InitHasher

\* The caller's session after a call has returned result.
Settle(call, result) ==
    IF result.kind = "Ok" /\ call.op \in {"complete", "abort"}
       /\ session[call.upload_id] = "Open"
    THEN [session EXCEPT ![call.upload_id] =
              IF call.op = "complete" THEN "Completed" ELSE "Aborted"]
    ELSE session

\* fetch_with_abort_handling hands one request to the transport.
Dispatch(sent, req) == Append(sent, req)

InitiateCall(c, bucket, object_key, now) ==
    /\ calls[c].pc = "idle"
    /\ calls' = [calls EXCEPT ![c] =
                    [IdleCall EXCEPT !.pc = "fetch", !.op = "initiate",
                                     !.bucket = bucket, !.object_key = object_key,
                                     !.req = InitiateRequest(cred, bucket, object_key, now),
                                     !.sent = Dispatch(IdleCall.sent,
                                                  InitiateRequest(cred, bucket, object_key,
                                                      now))]]
    /\ UNCHANGED <<hvars, cred, heap, session>>

UploadPartCall(c, bucket, object_key, upload_id, part_number, chunk, signal, now) ==
    /\ calls[c].pc = "idle"
    /\ heap' = [heap EXCEPT ![c] = chunk]
    /\ LET chunk_data == to_vec(chunk)
       IN  calls' = [calls EXCEPT ![c] =
                        [IdleCall EXCEPT !.pc = "fetch", !.op = "upload_part",
                                         !.bucket = bucket, !.object_key = object_key,
                                         !.upload_id = upload_id,
                                         !.part_number = part_number,
                                         !.late = (session[upload_id] # "Open"),
                                         !.chunk_at_call = chunk,
                                         !.req = UploadPartRequest(cred, bucket, object_key,
                                                     upload_id, part_number, chunk_data,
                                                     signal, now),
                                         !.sent = Dispatch(IdleCall.sent,
                                                      UploadPartRequest(cred, bucket,
                                                          object_key, upload_id,
                                                          part_number, chunk_data, signal,
                                                          now))]]
    /\ UNCHANGED <<hvars, cred, session>>

CompleteCall(c, bucket, object_key, upload_id, parts, signal, now) ==
    /\ calls[c].pc = "idle"
    /\ LET parts_data == JoinParts(parts)
       IN  calls' = [calls EXCEPT ![c] =
                        [IdleCall EXCEPT !.pc = "fetch", !.op = "complete",
                                         !.bucket = bucket, !.object_key = object_key,
                                         !.upload_id = upload_id, !.parts = parts,
                                         !.parts_data = parts_data,
                                         !.req = CompleteRequest(cred, bucket, object_key,
                                                     upload_id, parts_data, signal, now),
                                         !.sent = Dispatch(IdleCall.sent,
                                                      CompleteRequest(cred, bucket,
                                                          object_key, upload_id,
                                                          parts_data, signal, now))]]
    /\ UNCHANGED <<hvars, cred, heap, session>>

AbortCall(c, bucket, object_key, upload_id, now) ==
    /\ calls[c].pc = "idle"
    /\ calls' = [calls EXCEPT ![c] =
                    [IdleCall EXCEPT !.pc = "fetch", !.op = "abort",
                                     !.bucket = bucket, !.object_key = object_key,
                                     !.upload_id = upload_id,
                                     !.req = AbortRequest(cred, bucket, object_key,
                                                 upload_id, now),
                                     !.sent = Dispatch(IdleCall.sent,
                                                  AbortRequest(cred, bucket, object_key,
                                                      upload_id, now))]]
    /\ UNCHANGED <<hvars, cred, heap, session>>

\* The caller reuses its buffer while the part is in flight.
Overwrite(c, bytes) ==
    /\ calls[c].op = "upload_part"
    /\ calls[c].pc \in {"fetch", "text"}
    /\ heap[c] # bytes
    /\ heap' = [heap EXCEPT ![c] = bytes]
    /\ UNCHANGED <<hvars, cred, calls, session>>

\* The cancellation token passed with the request fires while the call is in flight.
Cancel(c) ==
    /\ calls[c].pc \in {"fetch", "text"}
    /\ calls[c].req.signal
    /\ ~calls[c].aborted
    /\ calls' = [calls EXCEPT ![c].aborted = TRUE]
    /\ UNCHANGED <<hvars, cred, heap, session>>

\* The call after it has returned result; a failure is returned and nothing else is
\* done about it.
ReturnedAbortingOnFailure(call, result) ==
    [call EXCEPT !.pc = "done", !.result = result,
                 !.sent = IF result.kind = "Err" /\ call.op # "abort"
                          THEN Dispatch(call.sent, [call.req EXCEPT !.method = "DELETE"])
                          ELSE call.sent]

Returned(call, result) == [call EXCEPT !.pc = "done", !.result = result]

\* The call returns result.
Finish(c, call, result) ==
    /\ calls' = [calls EXCEPT ![c] = Returned(call, result)]
    /\ session' = Settle(call, result)

\* Awaiting resp.text().
AwaitText(c, call) ==
    /\ calls' = [calls EXCEPT ![c] = [call EXCEPT !.pc = "text"]]
    /\ UNCHANGED session

\* fetch resolves with the response's status and headers; the call runs on to its
\* next await or to its return.
FetchResolve(c, resp) ==
    /\ calls[c].pc = "fetch"
    /\ ~calls[c].aborted
    /\ LET call == [calls[c] EXCEPT !.responded = TRUE, !.resp = resp]
           ok == ResponseOk(resp.status)
       IN  CASE call.op = "upload_part" ->
                    IF ~ok THEN AwaitText(c, call) ELSE Finish(c, call, ETagOutcome(resp.etag))
             [] call.op = "initiate" -> AwaitText(c, call)
             [] call.op = "complete" ->
                    IF ~ok THEN AwaitText(c, call)
                    ELSE Finish(c, call,
                                Ok(JsString(FinalUrl(cred, call.bucket, call.object_key))))
             [] call.op = "abort" ->
                    Finish(c, call, IF ~ok THEN AbortHttpError ELSE Ok(JsUndefined))
    /\ UNCHANGED <<hvars, cred, heap>>

\* What the transport rejects with: an AbortError once the token has fired, a
\* network failure otherwise.
Rejection(call) == IF call.aborted THEN DomException("AbortError") ELSE JsTypeError

\* fetch rejects.
FetchReject(c) ==
    /\ calls[c].pc = "fetch"
    /\ Finish(c, calls[c], handle_fetch_error(Rejection(calls[c])))
    /\ UNCHANGED <<hvars, cred, heap>>

\* resp.text() resolves with the body.
TextResolve(c) ==
    /\ calls[c].pc = "text"
    /\ ~calls[c].aborted
    /\ LET call == calls[c]
           status == call.resp.status
           text == call.resp.body
       IN  CASE call.op = "upload_part" -> Finish(c, call, UploadPartHttpError(status, text))
             [] call.op = "initiate" ->
                    Finish(c, call, IF ~ResponseOk(status)
                                    THEN InitiateHttpError(status, text)
                                    ELSE ExtractUploadId(text))
             [] call.op = "complete" -> Finish(c, call, CompleteHttpError(status, text))
    /\ UNCHANGED <<hvars, cred, heap>>

\* resp.text() rejects: the error is passed on by `?` as it is.
TextReject(c) ==
    /\ calls[c].pc = "text"
    /\ Finish(c, calls[c], Err(Rejection(calls[c])))
    /\ UNCHANGED <<hvars, cred, heap>>

\* The caller takes the result; the slot is free for the next call.
Return(c) ==
    /\ calls[c].pc = "done"
    /\ calls' = [calls EXCEPT ![c] = IdleCall]
    /\ heap' = [heap EXCEPT ![c] = <<>>]
    /\ UNCHANGED <<hvars, cred, session>>

Next ==
    \/ \E c \in Slots, b \in Buckets, k \in ObjectKeys, now \in AmzDates :
            InitiateCall(c, b, k, now)
    \/ \E c \in Slots, b \in Buckets, k \in ObjectKeys, id \in UploadIds,
          n \in PartNumbers, chunk \in Chunks, signal \in BOOLEAN, now \in AmzDates :
            UploadPartCall(c, b, k, id, n, chunk, signal, now)
    \/ \E c \in Slots, b \in Buckets, k \in ObjectKeys, id \in UploadIds,
          parts \in PartLists, signal \in BOOLEAN, now \in AmzDates :
            CompleteCall(c, b, k, id, parts, signal, now)
    \/ \E c \in Slots, b \in Buckets, k \in ObjectKeys, id \in UploadIds, now \in AmzDates :
            AbortCall(c, b, k, id, now)
    \/ \E c \in Slots, bytes \in Chunks : Overwrite(c, bytes)
    \/ \E c \in Slots : Cancel(c)
    \/ \E c \in Slots : \E resp \in ResponsesFor(calls[c].op) : FetchResolve(c, resp)
    \/ \E c \in Slots : FetchReject(c)
    \/ \E c \in Slots : TextResolve(c)
    \/ \E c \in Slots : TextReject(c)
    \/ \E c \in Slots : Return(c)

Spec == Init /\ [][Next]_vars

----------------------------------------------------------------------------
(* Concurrent upload_part calls on one Uploader: the futures of two calls are  *)
(* polled in any interleaving.                                               *)

ConcurrentSlots == {1, 2}

ConcurrentResponses ==
    [status : {200, 403}, etag : {NoHeader, Header(<<Quote, "e", "1", Quote>>)},
     body : {ErrorBody}]

InitConcurrent ==
    /\ cred \in Credentials
    /\ calls = [c \in ConcurrentSlots |-> IdleCall]
    /\ heap = [c \in ConcurrentSlots |-> <<>>]
    /\ session = [id \in UploadIds |-> "Open"]
    /\ InitHasher

NextConcurrent ==
    \/ \E c \in ConcurrentSlots, b \in Buckets, n \in PartNumbers, chunk \in Chunks,
          signal \in BOOLEAN, now \in AmzDates :
            UploadPartCall(c, b, <<"k">>, <<"i", "d", "=", "=">>, n, chunk, signal, now)
    \/ \E c \in ConcurrentSlots, bytes \in Chunks : Overwrite(c, bytes)
    \/ \E c \in ConcurrentSlots : Cancel(c)
    \/ \E c \in ConcurrentSlots, resp \in ConcurrentResponses : FetchResolve(c, resp)
    \/ \E c \in ConcurrentSlots : FetchReject(c)
    \/ \E c \in ConcurrentSlots : TextResolve(c)
    \/ \E c \in ConcurrentSlots : TextReject(c)
    \/ \E c \in ConcurrentSlots : Return(c)

SpecConcurrent == InitConcurrent /\ [][NextConcurrent]_vars

----------------------------------------------------------------------------
(* The IncrementalHasher's methods, called in any interleaving. *)

HashBytes == {1, 2}
HashChunks == UNION {[1..n -> HashBytes] : n \in 0..MaxChunkLen}

Update(chunk) ==
    /\ Len(fed) < MaxUpdates
    /\ hasher' = HasherUpdate(hasher, chunk)
    /\ fed' = Append(fed, chunk)
    /\ digest_out' = [NoDigest EXCEPT !.earlier = digest_out.earlier \/ digest_out.alg # "none"]
    /\ UNCHANGED <<cred, calls, heap, session>>

FinalizeSha256 ==
    /\ digest_out' = [digest_out EXCEPT !.alg = "sha256", !.hex = finalize_sha256(hasher)]
    /\ hasher' = HasherAfterFinalize(hasher)
    /\ UNCHANGED <<fed, cred, calls, heap, session>>

FinalizeMd5 ==
    /\ digest_out' = [digest_out EXCEPT !.alg = "md5", !.hex = finalize_md5(hasher)]
    /\ hasher' = HasherAfterFinalize(hasher)
    /\ UNCHANGED <<fed, cred, calls, heap, session>>

NextHasher ==
    \/ \E chunk \in HashChunks : Update(chunk)
    \/ FinalizeSha256
    \/ FinalizeMd5

SpecHasher == Init /\ [][NextHasher]_vars

----------------------------------------------------------------------------
(* Properties. *)

Contains(s, sub) ==
    \E i \in 1..(Len(s) - Len(sub) + 1) : SubSeq(s, i, i + Len(sub) - 1) = sub

Is2xx(status) == status \in 200..299

InFlight(c) == calls[c].pc \in {"fetch", "text"}
Done(c) == calls[c].pc = "done"

\* C1: when the cancellation token of an upload_part or complete call fires after the
\* request is dispatched and before the call returns, the call resolves to
\* "USER_CANCELED", never to an HTTP-status error or a raw transport error.
C1_CancelYieldsUserCanceled ==
    \A c \in Slots :
        (/\ calls[c].op \in {"upload_part", "complete"}
         /\ calls[c].req.signal
         /\ calls[c].aborted
         /\ Done(c))
        => calls[c].result = Err(UserCanceled)

\* C2: whenever the store answers any of the four operations with a non-2xx status, the
\* call fails with an error that carries the response's status code and its body text.
C2_HttpErrorCarriesStatusAndBody ==
    \A c \in Slots :
        (Done(c) /\ calls[c].responded /\ ~Is2xx(calls[c].resp.status))
        => /\ calls[c].result.kind = "Err"
           /\ calls[c].result.val.js = "string"
           /\ Contains(calls[c].result.val.str, ToDec(calls[c].resp.status))
           /\ Contains(calls[c].result.val.str, calls[c].resp.body)

SignedPayloadHash(req) == req.authorization.signature.hex.hmac_data[4].sha256[6]

Unreserved == Letters \cup Digits \cup {"-", "_", ".", "~"}

RECURSIVE PercentEncodeUnreserved(_)
PercentEncodeUnreserved(s) ==
    IF s = <<>> THEN <<>>
    ELSE (IF Head(s) \in Unreserved THEN <<Head(s)>> ELSE PercentCode(Head(s)))
         \o PercentEncodeUnreserved(Tail(s))

\* C5: the query string upload_part signs and sends is partNumber=<n>&uploadId=<enc(id)>,
\* partNumber first, enc percent-encoding every character outside the unreserved set.
C5_QueryIsPartNumberThenEncodedId ==
    \A c \in Slots :
        (calls[c].op = "upload_part" /\ calls[c].pc # "idle")
        => LET q == <<"partNumber=">> \o ToDec(calls[c].part_number) \o <<"&uploadId=">>
                    \o PercentEncodeUnreserved(calls[c].upload_id)
           IN  /\ calls[c].req.canonical_query = q
               /\ Contains(calls[c].req.url, <<"?">> \o q)

RECURSIVE ExpectedPartsXml(_)
ExpectedPartsXml(l) ==
    IF l = <<>> THEN <<>>
    ELSE <<"<Part><PartNumber>">> \o ToDec(Head(l).part_number)
         \o <<"</PartNumber><ETag>", Quote>> \o Head(l).etag \o <<Quote, "</ETag></Part>">>
         \o ExpectedPartsXml(Tail(l))

\* C6: the XML body of complete has exactly one Part element per supplied part, in the
\* order supplied, between the CompleteMultipartUpload tags; no part is dropped.
C6_XmlListsEveryPartInOrder ==
    \A c \in Slots :
        (calls[c].op = "complete" /\ calls[c].pc # "idle")
        => calls[c].req.body.text =
               <<"<CompleteMultipartUpload>">> \o ExpectedPartsXml(calls[c].parts)
               \o <<"</CompleteMultipartUpload>">>

\* A value without its surrounding pair of double quotes.
StripSurroundingQuotes(v) ==
    IF Len(v) >= 2 /\ v[1] = Quote /\ v[Len(v)] = Quote
    THEN SubSeq(v, 2, Len(v) - 1)
    ELSE v

\* C7: the etag upload_part returns is the ETag header value without its surrounding
\* double quotes and otherwise unchanged, and handing it to complete puts the value the
\* store returned, quoted, into the XML.
C7_ETagRoundTrip ==
    \A c \in Slots :
        (/\ calls[c].op = "upload_part"
         /\ Done(c)
         /\ calls[c].result.kind = "Ok"
         /\ calls[c].resp.etag.present)
        => LET header == calls[c].resp.etag.value
               etag == calls[c].result.val.str
               part == [part_number |-> calls[c].part_number, etag |-> etag]
           IN  /\ etag = StripSurroundingQuotes(header)
               /\ Contains(XmlBody(JoinParts(<<part>>)),
                           <<"</PartNumber><ETag>", Quote>> \o StripSurroundingQuotes(header)
                           \o <<Quote, "</ETag></Part>">>)

\* The text between the first <UploadId> marker and the </UploadId> marker after it.
TextBetweenMarkers(text) ==
    LET i == IndexOf(text, "<UploadId>", 1)
        j == IndexOf(text, "</UploadId>", i + 1)
    IN  SubSeq(text, i + 1, j - 1)

HasMarkers(text) ==
    /\ IndexOf(text, "<UploadId>", 1) # 0
    /\ IndexOf(text, "</UploadId>", 1) # 0

\* C8: on a 2xx response whose body was read, initiate returns exactly the text between
\* the first <UploadId> marker and the </UploadId> marker, and fails with the
\* "UploadId not found" protocol error when either marker is absent.
C8_InitiateExtractsUploadId ==
    \A c \in Slots :
        (/\ calls[c].op = "initiate"
         /\ Done(c)
         /\ calls[c].responded
         /\ Is2xx(calls[c].resp.status)
         /\ calls[c].result.val.js \notin {"TypeError", "DOMException"})
        => LET text == calls[c].resp.body
           IN  IF HasMarkers(text)
               THEN calls[c].result = Ok(JsString(TextBetweenMarkers(text)))
               ELSE /\ calls[c].result.kind = "Err"
                    /\ StartsWith(calls[c].result.val.str, <<"UploadId not found: ">>)

\* C9: a 2xx answer to upload_part without an ETag header makes the call fail with the
\* "No ETag" error; it never returns a success value.
C9_MissingETagFails ==
    \A c \in Slots :
        (/\ calls[c].op = "upload_part"
         /\ Done(c)
         /\ calls[c].responded
         /\ Is2xx(calls[c].resp.status)
         /\ ~calls[c].resp.etag.present)
        => calls[c].result = Err(JsString(<<"No ETag">>))

C9_Witness ==
    \E c \in Slots :
        /\ calls[c].op = "upload_part"
        /\ Done(c)
        /\ calls[c].responded
        /\ Is2xx(calls[c].resp.status)
        /\ ~calls[c].resp.etag.present
        /\ calls[c].result.kind = "Err"

\* C10: in each of the four operations the canonical URI that is signed has exactly one
\* slash between the bucket and the key, whether or not the key has leading slashes.
C10_OneSlashBetweenBucketAndKey ==
    \A c \in Slots :
        calls[c].pc # "idle"
        => LET uri == calls[c].req.canonical_uri
               n == Len(calls[c].bucket)
           IN  /\ Len(uri) >= n + 3
               /\ uri[1] = "/"
               /\ SubSeq(uri, 2, n + 1) = calls[c].bucket
               /\ uri[n + 2] = "/"
               /\ uri[n + 3] # "/"

\* A URL without its scheme.
AfterScheme(url) ==
    IF StartsWith(url, Https) THEN SubSeq(url, Len(Https) + 1, Len(url))
    ELSE IF StartsWith(url, Http) THEN SubSeq(url, Len(Http) + 1, Len(url))
    ELSE url

\* The first slash after the scheme is followed by the bucket and one more slash.
OneSlashThenBucket(url, bucket) ==
    LET rest == AfterScheme(url)
        i == IndexOf(rest, "/", 1)
    IN  /\ i > 1
        /\ StartsWith(SubSeq(rest, i + 1, Len(rest)), bucket \o <<"/">>)

\* C11: in each of the four operations, whether or not the endpoint ends with a slash,
\* the request URL, and the final URL complete returns, join the endpoint and the
\* bucket by exactly one slash: no double slash follows the endpoint.
C11_NoDoubleSlashInUrl ==
    \A c \in DOMAIN calls :
        /\ calls[c].pc # "idle" => OneSlashThenBucket(calls[c].req.url, calls[c].bucket)
        /\ (calls[c].op = "complete" /\ Done(c) /\ calls[c].result.kind = "Ok")
           => OneSlashThenBucket(calls[c].result.val.str, calls[c].bucket)

RECURSIVE Concat(_)
Concat(chunks) == IF chunks = <<>> THEN <<>> ELSE Head(chunks) \o Concat(Tail(chunks))

\* C12: in any interleaving of update, finalize_sha256 and finalize_md5, a finalize
\* returns the digest of the concatenation of all bytes passed to update so far and
\* leaves the hasher as it was: repeated finalizes agree, and updates after a finalize
\* accumulate as if there had been none.
C12_FinalizeIsNonDestructive ==
    /\ digest_out.alg = "sha256"
       => digest_out.hex = [sha256 |-> IF Concat(fed) = <<>> THEN NoBody
                                      ELSE BytesBody(Concat(fed))]
    /\ digest_out.alg = "md5" => digest_out.hex = [md5 |-> Concat(fed)]

C12_Witness ==
    /\ digest_out.alg # "none"
    /\ digest_out.earlier
    /\ Concat(fed) # <<>>

\* C13: both digests depend on the concatenated bytes only: the hasher after its
\* updates gives the digests of a new hasher after one update with the concatenation,
\* and a new hasher gives the digests of the empty input.
C13_DigestsIgnoreChunking ==
    /\ finalize_sha256(hasher) = finalize_sha256(HasherUpdate(HasherNew, Concat(fed)))
    /\ finalize_md5(hasher) = finalize_md5(HasherUpdate(HasherNew, Concat(fed)))
    /\ fed = <<>> => /\ finalize_sha256(hasher) = EmptySha256
                     /\ finalize_md5(hasher) = [md5 |-> <<>>]

C13_Witness ==
    /\ Len(fed) = 2
    /\ fed[1] # <<>>
    /\ fed[2] # <<>>
    /\ digest_out.alg # "none"

\* C14: a call hands at most one request to the transport, its own; when it returns a
\* failure (HTTP error, protocol error, cancellation, transport error) nothing further
\* has been sent: the request was not repeated and no Abort request was issued for it.
C14_OneRequestNoRetryNoAbort ==
    \A c \in DOMAIN calls :
        /\ Len(calls[c].sent) <= 1
        /\ calls[c].pc # "idle" => calls[c].sent = <<calls[c].req>>
        /\ \A i \in DOMAIN calls[c].sent :
               calls[c].sent[i].method = "DELETE" => calls[c].op = "abort"
        /\ (Done(c) /\ calls[c].result.kind = "Err")
           => /\ Len(calls[c].sent) = 1
              /\ calls[c].sent[1].method = calls[c].req.method

C14_Witness ==
    \E c \in DOMAIN calls :
        /\ Done(c)
        /\ calls[c].op \in {"upload_part", "complete"}
        /\ calls[c].result = Err(UserCanceled)
        /\ Len(calls[c].sent) = 1

\* What a call that ran alone would have built from its own parameters and timestamp.
RequestAlone(call) ==
    UploadPartRequest(cred, call.bucket, call.object_key, call.upload_id, call.part_number,
                      call.chunk_at_call, call.req.signal, call.req.x_amz_date)

\* What a call that ran alone would return for its own response or rejection.
ResultsAlone(call) ==
    IF ~call.responded THEN {handle_fetch_error(Rejection(call))}
    ELSE IF ResponseOk(call.resp.status) THEN {ETagOutcome(call.resp.etag)}
    ELSE {UploadPartHttpError(call.resp.status, call.resp.body), Err(Rejection(call))}

C15_EachCallAsIfAlone ==
    \A c \in DOMAIN calls :
        /\ calls[c].pc # "idle" => /\ calls[c].req = RequestAlone(calls[c])
                                   /\ calls[c].sent = <<RequestAlone(calls[c])>>
        /\ Done(c) => calls[c].result \in ResultsAlone(calls[c])

C15_StepsTouchOneCall ==
    /\ cred' = cred
    /\ \A c, d \in DOMAIN calls :
           (c # d /\ calls'[c] # calls[c]) => calls'[d] = calls[d]

\* C15: no operation changes the credential set, and with upload_part calls in flight
\* together in any interleaving each call's request is the one its own parameters and
\* timestamp give and its result the one its own response gives; a step of one call
\* leaves the other call as it was.
C15_ConcurrentPartsAreIndependent ==
    []C15_EachCallAsIfAlone /\ [][C15_StepsTouchOneCall]_vars

C15_Witness ==
    /\ Done(1)
    /\ Done(2)
    /\ calls[1].part_number # calls[2].part_number
    /\ calls[1].chunk_at_call # calls[2].chunk_at_call
    /\ calls[1].result.kind # calls[2].result.kind

\* The first n characters of s.
FirstChars(s, n) ==
    LET k == CHOOSE j \in 0..Len(s) : ByteLen(s, j) = n
    IN  SubSeq(s, 1, k)

\* The Authorization value calculate_v4_auth gives for what a request signs.
AuthByCalculateV4(r) ==
    calculate_v4_auth(cred, r.method, r.canonical_uri, r.canonical_query, r.x_amz_date,
                      FirstChars(r.x_amz_date, 8), r.x_amz_content_sha256, r.host,
                      <<"host;x-amz-content-sha256;x-amz-date;x-amz-security-token">>)

\* C16: all four operations sign alike: the Authorization value of every request, the
\* inline ones of upload_part and initiate included, is the one calculate_v4_auth gives
\* for the same method, canonical URI, canonical query, host, payload hash, timestamp
\* and credentials; the signed header list is host, x-amz-content-sha256, x-amz-date,
\* x-amz-security-token, and the credential scope date is the first 8 characters of the
\* x-amz-date sent.
C16_OneSigningProcedure ==
    \A c \in DOMAIN calls :
        calls[c].pc # "idle" =>
            LET r == calls[c].req
            IN  /\ r.authorization = AuthByCalculateV4(r)
                /\ r.authorization.signed_headers =
                       <<"host;x-amz-content-sha256;x-amz-date;x-amz-security-token">>
                /\ r.authorization.credential =
                       cred.access_key \o <<"/">> \o FirstChars(r.x_amz_date, 8) \o <<"/">>
                       \o cred.region \o <<"/s3/aws4_request">>
                /\ r.authorization.signature.hex.hmac_data[2] = r.x_amz_date

C16_Witness ==
    \E c \in DOMAIN calls :
        /\ calls[c].op \in {"upload_part", "initiate"}
        /\ calls[c].pc = "fetch"
        /\ calls[c].req.authorization = AuthByCalculateV4(calls[c].req)

\* The authority, path and query of a URL: what lies between the scheme and the first
\* slash, from that slash to the question mark, and after the question mark.
UrlAuthority(url) ==
    LET rest == AfterScheme(url)
        i == IndexOf(rest, "/", 1)
    IN  IF i = 0 THEN rest ELSE SubSeq(rest, 1, i - 1)

UrlPath(url) ==
    LET rest == AfterScheme(url)
        i == IndexOf(rest, "/", 1)
        q == IndexOf(rest, "?", 1)
    IN  IF i = 0 THEN <<>> ELSE SubSeq(rest, i, IF q = 0 THEN Len(rest) ELSE q - 1)

UrlQuery(url) ==
    LET q == IndexOf(url, "?", 1)
    IN  IF q = 0 THEN <<>> ELSE SubSeq(url, q + 1, Len(url))

\* C17: the request that is signed is the request that is sent: the signed host is the
\* authority of the URL, the canonical URI its path and the canonical query its query,
\* with initiate's signed "uploads=" standing for the URL's bare "uploads".
C17_SignedRequestIsSentRequest ==
    \A c \in DOMAIN calls :
        calls[c].pc # "idle" =>
            LET r == calls[c].req
            IN  /\ r.host = UrlAuthority(r.url)
                /\ r.canonical_uri = UrlPath(r.url)
                /\ r.canonical_query = IF UrlQuery(r.url) = <<"uploads">> THEN <<"uploads=">>
                                       ELSE UrlQuery(r.url)

\* C18: initiate_multipart_upload ends with an upload id or an error value for every
\* 2xx response body; the extraction never panics on an out-of-range slice.
C18_ExtractionNeverPanics ==
    \A c \in DOMAIN calls :
        (calls[c].op = "initiate" /\ Done(c) /\ Is2xx(calls[c].resp.status))
        => calls[c].result.kind \in {"Ok", "Err"}

====
